---- MODULE Spec2Model ----
(***************************************************************************)
(* Model of the scoring and explanation pipeline of src/src/api/app.py:    *)
(* the startup loader (lifespan), the vectorizer (validate_features), the  *)
(* explainer (get_top_risk_factors) and the handlers /health, /score,      *)
(* /metrics, /batch_score and /feature_importance.                         *)
(*                                                                         *)
(* Numbers.  Risk scores and confidences are fixed-point numbers in units  *)
(* of a quarter: One (= 4) stands for 1.0 and threshold (= 2) for 0.5.     *)
(* Feature values and importances are integers; the 75th percentile, which *)
(* numpy interpolates linearly, is kept multiplied by 4 so that it stays   *)
(* an integer.  Timestamps (datetime.now()) are left out of the responses. *)
(*                                                                         *)
(* The handlers are coroutines without an await, so each runs atomically   *)
(* on the event loop: one action per handler.                              *)
(***************************************************************************)
EXTENDS Integers, Sequences, FiniteSets, TLC

VARIABLES model, feature_names, feature_importance, model_metadata,
          started, files, call, feature_vectors, response

\* model .. model_metadata: the module's globals.  started: lifespan has
\* run.  files: what lifespan found of the two files.  call: the last request served.  feature_vectors: the vectors that
\* call's handler got from validate_features, in order.  response: its response.
vars == <<model, feature_names, feature_importance, model_metadata,
          started, files, call, feature_vectors, response>>

globals == <<model, feature_names, feature_importance, model_metadata>>

-----------------------------------------------------------------------------
(* Values *)

\* Python's None, and a value that is not None.
NONE == [none |-> TRUE]
Some(v) == [val |-> v]

\* The result of a call that may raise.
Raised(why) == [raised |-> TRUE, why |-> why]
Returned(v) == [raised |-> FALSE, val |-> v]

\* 1.0 in quarter units.
One == 4

\* threshold = 0.5
threshold == One \div 2

\* top_n: int = 5
top_n == 5

Min(a, b) == IF a < b THEN a ELSE b

abs(a) == IF a < 0 THEN 0 - a ELSE a

-----------------------------------------------------------------------------
(* Bounds *)

\* Longest batch sent to /batch_score.
MaxBatch == 2

\* Longest feature_names list in a metadata document.
MaxFeatures == 6

\* Largest importance weight in a metadata document.
MaxImportance == 3

\* Number of classes of feature vectors the scorer tells apart.
DigestMod == 2

-----------------------------------------------------------------------------
(* Requests: the boundary schema ReturnRequest, cut down to seven of its   *)
(* numeric fields and the two identifiers, with the values the tests send. *)

test_request ==
    [user_id |-> "test_user_001", order_id |-> "test_order_001",
     user_age_days |-> 30, num_orders |-> 5, order_value |-> 150,
     item_count |-> 2, billing_shipping_mismatch |-> 0,
     is_high_value |-> 0, hour_of_day |-> 14]

high_risk_request ==
    [test_request EXCEPT !.user_id = "test_user_002", !.order_id = "test_order_002",
                         !.user_age_days = 5, !.order_value = 1000,
                         !.billing_shipping_mismatch = 1, !.is_high_value = 1]

low_risk_request ==
    [test_request EXCEPT !.user_id = "test_user_003", !.order_id = "test_order_003",
                         !.user_age_days = 365, !.order_value = 50]

ReturnRequest == {test_request, high_risk_request, low_risk_request}

\* The request lists of at most n requests /batch_score receives.
RequestLists(n) == UNION {[1..m -> ReturnRequest] : m \in 0..n}

-----------------------------------------------------------------------------
(* The scorer: an opaque pure function of the feature vector that returns  *)
(* a score in [0,1] or raises.  It is a table over a digest of the vector. *)

RAISES == 0 - 1

RECURSIVE WeightedSum(_, _)
WeightedSum(v, i) == IF i > Len(v) THEN 0 ELSE i * v[i] + WeightedSum(v, i + 1)

Digest(v) == WeightedSum(v, 1) % DigestMod

Scorers == [0..(DigestMod - 1) -> (0..One) \cup {RAISES}]

\* model.predict(features)[0]
predict(scorer, features) ==
    LET out == scorer[Digest(features)]
    IN  IF out = RAISES THEN Raised("predict") ELSE Returned(out)

-----------------------------------------------------------------------------
(* Files read at startup *)

\* The order of the columns the model was trained on; "legacy_feature" is a
\* column the request schema does not have.
TrainedOrder ==
    <<"order_value", "legacy_feature", "user_age_days", "is_high_value",
      "billing_shipping_mismatch", "num_orders", "item_count", "hour_of_day">>

Prefix(n) == SubSeq(TrainedOrder, 1, n)

Reverse(s) == [i \in 1..Len(s) |-> s[Len(s) + 1 - i]]

FeatureNameLists == {Prefix(n) : n \in 0..MaxFeatures}
                        \cup {Reverse(Prefix(n)) : n \in 0..MaxFeatures}

\* Importance vectors of length n: arithmetic patterns, which give ties,
\* ascending, descending and constant vectors.
ImportanceLists(n) ==
    {[i \in 1..n |-> (a * i + b) % (MaxImportance + 1)] :
        a \in 0..MaxImportance, b \in 0..MaxImportance}

\* Lengths of feature_importance against n names: one short, equal, one long.
ImportanceLengths(n) == {m \in {n - 1, n, n + 1} : m >= 0}

\* A metadata document; each key is NONE (the document does not have it) or
\* Some(value).
MetadataDoc(names, importance, date) ==
    [feature_names |-> names, feature_importance |-> importance,
     training_date |-> date]

ModelFile(state, scorer) == [state |-> state, scorer |-> scorer]

MetadataFile(state, doc) == [state |-> state, doc |-> doc]

NoScorer == [d \in 0..(DigestMod - 1) |-> RAISES]

NoDoc == MetadataDoc(NONE, NONE, NONE)

\* models/fraud_detection_model.joblib: absent, unreadable, or a scorer.
ModelFiles(scorers) ==
    {ModelFile("absent", NoScorer), ModelFile("corrupt", NoScorer)}
        \cup {ModelFile("ok", s) : s \in scorers}

\* models/fraud_detection_model_metadata.json: absent, unreadable, or a document.
MetadataFiles(docs) ==
    {MetadataFile("absent", NoDoc), MetadataFile("corrupt", NoDoc)}
        \cup {MetadataFile("ok", d) : d \in docs}

-----------------------------------------------------------------------------
(* Startup *)

Init ==
    /\ model = NONE
    /\ feature_names = NONE
    /\ feature_importance = NONE
    /\ model_metadata = NONE
    /\ started = FALSE
    /\ files = [model |-> "unread", metadata |-> "unread"]
    /\ call = [op |-> "none", requests |-> <<>>]
    /\ feature_vectors = <<>>
    /\ response = [status |-> "none"]

\* A loader that reads the metadata file whether or not the model loaded.
load_artifacts_unnested(model_file, metadata_file) ==
    /\ files' = [model    |-> model_file.state,
                 metadata |-> metadata_file.state]
    /\ LET meta_ok  == metadata_file.state = "ok"
           doc      == metadata_file.doc
           names_ok == meta_ok /\ doc.feature_names # NONE
           imp_ok   == names_ok /\ doc.feature_importance # NONE
       IN  /\ model' = IF model_file.state = "ok"
                       THEN Some(model_file.scorer) ELSE NONE
           /\ model_metadata' = IF meta_ok THEN Some(doc) ELSE NONE
           /\ feature_names' = IF names_ok THEN doc.feature_names ELSE NONE
           /\ feature_importance' =
                  IF imp_ok THEN doc.feature_importance ELSE NONE

\* The body of lifespan up to its yield: every load step may raise; the
\* except clause logs and startup goes on with whatever was assigned before.
\* The metadata file is looked at only once the model has loaded.
load_artifacts(model_file, metadata_file) ==
    /\ files' = [model    |-> model_file.state,
                 metadata |-> IF model_file.state = "ok"
                              THEN metadata_file.state ELSE "unread"]
    /\ LET model_ok == model_file.state = "ok"
           meta_ok  == model_ok /\ metadata_file.state = "ok"
           doc      == metadata_file.doc
           names_ok == meta_ok /\ doc.feature_names # NONE
           imp_ok   == names_ok /\ doc.feature_importance # NONE
       IN  /\ model' = IF model_ok THEN Some(model_file.scorer) ELSE NONE
           /\ model_metadata' = IF meta_ok THEN Some(doc) ELSE NONE
           /\ feature_names' = IF names_ok THEN doc.feature_names ELSE NONE
           /\ feature_importance' =
                  IF imp_ok THEN doc.feature_importance ELSE NONE

\* A loader that also runs on a serving process: a hot reload.
lifespan_reload(model_file, metadata_file) ==
    /\ started' = TRUE
    /\ load_artifacts(model_file, metadata_file)
    /\ UNCHANGED <<call, feature_vectors, response>>

\* lifespan: runs once, before the first request is served.
lifespan(model_file, metadata_file) ==
    /\ ~started
    /\ started' = TRUE
    /\ load_artifacts(model_file, metadata_file)
    /\ UNCHANGED <<call, feature_vectors, response>>

-----------------------------------------------------------------------------
(* Utility functions *)

\* list.sort(key=..., reverse=True) is stable: elements with equal keys keep
\* their order.  The sort is done on positions: the result lists the
\* positions 1..Len(key) by descending key.
\* An insertion that puts an element before its equals: not stable.
RECURSIVE InsertDescUnstable(_, _, _)
InsertDescUnstable(perm, i, key) ==
    IF perm = <<>> THEN <<i>>
    ELSE IF key[Head(perm)] > key[i]
         THEN <<Head(perm)>> \o InsertDescUnstable(Tail(perm), i, key)
         ELSE <<i>> \o perm

RECURSIVE InsertDesc(_, _, _)
InsertDesc(perm, i, key) ==
    IF perm = <<>> THEN <<i>>
    ELSE IF key[Head(perm)] >= key[i]
         THEN <<Head(perm)>> \o InsertDesc(Tail(perm), i, key)
         ELSE <<i>> \o perm

RECURSIVE SortDescFrom(_, _, _)
SortDescFrom(key, i, perm) ==
    IF i > Len(key) THEN perm
    ELSE SortDescFrom(key, i + 1, InsertDesc(perm, i, key))

sort_reverse(data, key) ==
    LET perm == SortDescFrom(key, 1, <<>>)
    IN  [j \in 1..Len(data) |-> data[perm[j]]]

\* zip stops at the shortest argument.
zip2(a, b) == [i \in 1..Min(Len(a), Len(b)) |-> <<a[i], b[i]>>]

zip3(a, b, c) ==
    [i \in 1..Min(Len(a), Min(Len(b), Len(c))) |-> <<a[i], b[i], c[i]>>]

\* Ascending sort of a vector of numbers.
RECURSIVE InsertAsc(_, _)
InsertAsc(s, x) ==
    IF s = <<>> THEN <<x>>
    ELSE IF Head(s) <= x THEN <<Head(s)>> \o InsertAsc(Tail(s), x)
         ELSE <<x>> \o s

RECURSIVE SortAscFrom(_, _, _)
SortAscFrom(a, i, s) ==
    IF i > Len(a) THEN s ELSE SortAscFrom(a, i + 1, InsertAsc(s, a[i]))

\* 4 * np.percentile(a, 75): numpy interpolates linearly between the two
\* order statistics around position 0.75 * (n - 1).  a is not empty.
percentile75x4(a) ==
    LET s   == SortAscFrom(a, 1, <<>>)
        pos == 3 * (Len(s) - 1)
        k   == pos \div 4
        r   == pos % 4
    IN  IF r = 0 THEN 4 * s[k + 1]
        ELSE 4 * s[k + 1] + r * (s[k + 2] - s[k + 1])

\* 'high' for an importance on the percentile too.
risk_level_inclusive(importance, importances) ==
    IF 4 * importance >= percentile75x4(importances) THEN "high" ELSE "medium"

\* 'high' if importance > np.percentile(feature_importance, 75) else 'medium'
risk_level(importance, importances) ==
    IF 4 * importance > percentile75x4(importances) THEN "high" ELSE "medium"

\* feature_data[:top_n + 1]
top_features_one_more(feature_data) ==
    SubSeq(feature_data, 1, Min(top_n + 1, Len(feature_data)))

\* feature_data[:top_n]
top_features(feature_data) ==
    SubSeq(feature_data, 1, Min(top_n, Len(feature_data)))

\* An explainer that sorts names and importances and then reads the values
\* by position in the sorted list.
get_top_risk_factors_mispaired(features, names, importances) ==
    IF importances = NONE THEN <<>>
    ELSE LET feature_data == zip3(names.val, features, importances.val)
             sorted == sort_reverse(feature_data,
                           [i \in 1..Len(feature_data) |-> feature_data[i][3]])
             top    == top_features(sorted)
         IN  [j \in 1..Len(top) |->
                 [feature    |-> top[j][1],
                  value      |-> features[j],
                  importance |-> top[j][3],
                  risk_level |-> risk_level(top[j][3], importances.val)]]

\* get_top_risk_factors(features, feature_names, feature_importance); the
\* two metadata arguments are Python values, NONE or Some(list).
get_top_risk_factors(features, names, importances) ==
    IF importances = NONE THEN <<>>
    ELSE LET feature_data == zip3(names.val, features, importances.val)
             sorted == sort_reverse(feature_data,
                           [i \in 1..Len(feature_data) |-> feature_data[i][3]])
             top    == top_features(sorted)
         IN  [j \in 1..Len(top) |->
                 [feature    |-> top[j][1],
                  value      |-> top[j][2],
                  importance |-> top[j][3],
                  risk_level |-> risk_level(top[j][3], importances.val)]]

\* Takes missing feature names for an empty list: feature_names or [].
validate_features_lenient(request) ==
    IF feature_names = NONE THEN Returned(<<>>)
    ELSE LET names == feature_names.val
         IN  Returned([i \in 1..Len(names) |->
                          IF names[i] \in DOMAIN request
                          THEN request[names[i]] ELSE 0])

\* Fails on a name the request does not have instead of defaulting it.
validate_features_strict(request) ==
    IF feature_names = NONE THEN Raised("Model not loaded")
    ELSE LET names == feature_names.val
         IN  IF \E i \in 1..Len(names) : names[i] \notin DOMAIN request
             THEN Raised("KeyError")
             ELSE Returned([i \in 1..Len(names) |-> request[names[i]]])

\* validate_features(request): the vector in feature_names order, 0.0 for a
\* name the request does not have.  np.array turns the numbers into floats,
\* which keeps the value of every number used here.
validate_features(request) ==
    IF feature_names = NONE THEN Raised("Model not loaded")
    ELSE LET names == feature_names.val
         IN  Returned([i \in 1..Len(names) |->
                          IF names[i] \in DOMAIN request
                          THEN request[names[i]] ELSE 0])

-----------------------------------------------------------------------------
(* Responses *)

\* A raised HTTPException.  Its detail is kept in two parts: the fixed text
\* and the cause, the str(e) that the handlers put after "Scoring error: ".
HTTPException(status_code, detail, cause) ==
    [status |-> "error", status_code |-> status_code, detail |-> detail,
     cause |-> cause]

\* http_exception_handler(request, exc): the body sent for an HTTPException.
http_exception_handler(exc) ==
    [status |-> "error", error |-> exc.detail, cause |-> exc.cause,
     status_code |-> exc.status_code]

\* What the client gets from a handler that returned or raised.
Respond(outcome) ==
    IF outcome.status = "error" THEN http_exception_handler(outcome)
    ELSE outcome

\* model_metadata.get('training_date', 'unknown') if model_metadata else 'unknown'
training_date ==
    IF model_metadata = NONE THEN "unknown"
    ELSE IF model_metadata.val.training_date = NONE THEN "unknown"
         ELSE model_metadata.val.training_date.val

\* The distance from the threshold, not doubled.
confidence_of_undoubled(risk_score) == abs(risk_score - threshold)

\* abs(risk_score - threshold) * 2
confidence_of(risk_score) == abs(risk_score - threshold) * 2

\* Flags a score on the threshold too.
is_flagged_of_inclusive(risk_score) == risk_score >= threshold

\* risk_score > threshold
is_flagged_of(risk_score) == risk_score > threshold

\* The scorer's output taken as a percentage.
risk_score_of_percent(features) ==
    LET out == predict(model.val, features)
    IN  IF out.raised THEN out ELSE Returned(out.val * 100)

\* float(model.predict(features)[0])
risk_score_of(features) == predict(model.val, features)

\* The vectors /score computes: none when it fails before or in
\* validate_features.
ScoreFeatures(request) ==
    IF model = NONE THEN <<>>
    ELSE LET vector == validate_features(request)
         IN  IF vector.raised THEN <<>> ELSE <<vector.val>>

\* The body of /score.
ScoreResponse(request) ==
    IF model = NONE THEN HTTPException(500, "Model not loaded", "model")
    ELSE LET features == validate_features(request)
         IN  IF features.raised
             THEN HTTPException(500, "Scoring error", features.why)
             ELSE LET risk_score == risk_score_of(features.val)
                  IN  IF risk_score.raised
                      THEN HTTPException(500, "Scoring error", risk_score.why)
                      ELSE [status           |-> "ok",
                            risk_score       |-> risk_score.val,
                            is_flagged       |-> is_flagged_of(risk_score.val),
                            confidence       |-> Min(One, confidence_of(risk_score.val)),
                            top_risk_factors |->
                                get_top_risk_factors(features.val, feature_names,
                                                     feature_importance),
                            model_version    |-> training_date]

\* A batch result that flags a score on the threshold too.
BatchItemInclusive(request, risk_score) ==
    [user_id    |-> request.user_id,
     order_id   |-> request.order_id,
     risk_score |-> risk_score,
     is_flagged |-> risk_score >= threshold]

\* One result of /batch_score.
BatchItem(request, risk_score) ==
    [user_id    |-> request.user_id,
     order_id   |-> request.order_id,
     risk_score |-> risk_score,
     is_flagged |-> is_flagged_of(risk_score)]

\* results.insert(0, {...})
prepend_result(results, item) == <<item>> \o results

\* results.append({...})
append_result(results, item) == Append(results, item)

\* A loop that leaves out an item the scorer fails on and goes on.
RECURSIVE BatchLoopSkipping(_, _, _, _)
BatchLoopSkipping(requests, i, results, vectors) ==
    IF i > Len(requests)
    THEN [raised |-> FALSE, why |-> "", val |-> results, vectors |-> vectors]
    ELSE LET vector == validate_features(requests[i])
         IN  IF vector.raised
             THEN [raised |-> TRUE, why |-> vector.why, val |-> <<>>,
                   vectors |-> vectors]
             ELSE LET risk_score == risk_score_of(vector.val)
                  IN  IF risk_score.raised
                      THEN BatchLoopSkipping(requests, i + 1, results,
                               Append(vectors, vector.val))
                      ELSE BatchLoopSkipping(requests, i + 1,
                               append_result(results,
                                   BatchItem(requests[i], risk_score.val)),
                               Append(vectors, vector.val))

\* The loop of /batch_score from request i on: the results, or the first
\* exception, and the vectors computed on the way.
RECURSIVE BatchLoop(_, _, _, _)
BatchLoop(requests, i, results, vectors) ==
    IF i > Len(requests)
    THEN [raised |-> FALSE, why |-> "", val |-> results, vectors |-> vectors]
    ELSE LET vector == validate_features(requests[i])
         IN  IF vector.raised
             THEN [raised |-> TRUE, why |-> vector.why, val |-> <<>>,
                   vectors |-> vectors]
             ELSE LET risk_score == risk_score_of(vector.val)
                  IN  IF risk_score.raised
                      THEN [raised |-> TRUE, why |-> risk_score.why,
                            val |-> <<>>,
                            vectors |-> Append(vectors, vector.val)]
                      ELSE BatchLoop(requests, i + 1,
                               append_result(results,
                                   BatchItem(requests[i], risk_score.val)),
                               Append(vectors, vector.val))

\* len(set(...)) of the flagged results: equal results count once.
flagged_count_of_distinct(results) ==
    Cardinality({results[i] : i \in {j \in 1..Len(results) : results[j].is_flagged}})

\* sum(1 for r in results if r['is_flagged'])
flagged_count_of(results) ==
    Cardinality({i \in 1..Len(results) : results[i].is_flagged})

\* The vectors /batch_score computes.
BatchFeatures(requests) ==
    IF model = NONE THEN <<>> ELSE BatchLoop(requests, 1, <<>>, <<>>).vectors

\* The body of /batch_score.
BatchResponse(requests) ==
    IF model = NONE THEN HTTPException(500, "Model not loaded", "model")
    ELSE LET loop == BatchLoop(requests, 1, <<>>, <<>>)
         IN  IF loop.raised
             THEN HTTPException(500, "Batch scoring error", loop.why)
             ELSE [status          |-> "ok",
                   results         |-> loop.val,
                   total_processed |-> Len(loop.val),
                   flagged_count   |-> flagged_count_of(loop.val)]

\* The list /metrics and /feature_importance return: one entry per pair of
\* name and importance, by descending importance.
importance_data(names, importances) ==
    LET pairs  == zip2(names, importances)
        sorted == sort_reverse(pairs, [i \in 1..Len(pairs) |-> pairs[i][2]])
    IN  [j \in 1..Len(sorted) |->
            [feature |-> sorted[j][1], importance |-> sorted[j][2]]]

\* /metrics that fails, as /feature_importance does, without importances.
MetricsResponseStrict ==
    IF model = NONE \/ feature_names = NONE \/ feature_importance = NONE
    THEN HTTPException(500, "Model not loaded", "model")
    ELSE [status     |-> "ok",
          model_info |->
              [model_type    |-> "LightGBM",
               training_date |-> training_date,
               feature_count |-> Len(feature_names.val)],
          feature_importance |->
              importance_data(feature_names.val, feature_importance.val)]

\* /metrics without the check that a model is loaded.
MetricsResponseUnchecked ==
    [status     |-> "ok",
     model_info |->
         [model_type    |-> "LightGBM",
          training_date |-> training_date,
          feature_count |->
              IF feature_names # NONE /\ feature_names.val # <<>>
              THEN Len(feature_names.val) ELSE 0],
     feature_importance |->
         IF /\ feature_names # NONE
            /\ feature_names.val # <<>>
            /\ feature_importance # NONE
         THEN importance_data(feature_names.val, feature_importance.val)
         ELSE <<>>]

\* The body of /metrics.
MetricsResponse ==
    IF model = NONE THEN HTTPException(500, "Model not loaded", "model")
    ELSE [status     |-> "ok",
          model_info |->
              [model_type    |-> "LightGBM",
               training_date |-> training_date,
               feature_count |->
                   IF feature_names # NONE /\ feature_names.val # <<>>
                   THEN Len(feature_names.val) ELSE 0],
          feature_importance |->
              IF /\ feature_names # NONE
                 /\ feature_names.val # <<>>
                 /\ feature_importance # NONE
              THEN importance_data(feature_names.val, feature_importance.val)
              ELSE <<>>]

\* The body of /feature_importance.
FeatureImportanceResponse ==
    IF model = NONE \/ feature_names = NONE \/ feature_importance = NONE
    THEN HTTPException(500, "Model or feature data not loaded", "model")
    ELSE [status             |-> "ok",
          feature_importance |->
              importance_data(feature_names.val, feature_importance.val),
          total_features     |-> Len(feature_names.val)]

\* A health check that wants the metadata too.
HealthResponseWithMetadata ==
    [status_code  |-> 200,
     status       |-> IF model # NONE /\ feature_names # NONE
                      THEN "healthy" ELSE "unhealthy",
     model_loaded |-> model # NONE /\ feature_names # NONE]

\* The body of /health.
HealthResponse ==
    [status_code  |-> 200,
     status       |-> IF model # NONE THEN "healthy" ELSE "unhealthy",
     model_loaded |-> model # NONE]

-----------------------------------------------------------------------------
(* Handlers *)

health_check ==
    /\ started
    /\ call' = [op |-> "health", requests |-> <<>>]
    /\ feature_vectors' = <<>>
    /\ response' = HealthResponse
    /\ UNCHANGED <<globals, started, files>>

\* A /score that drops the model once the scorer has failed.
score_return_request_unloading(request) ==
    /\ started
    /\ call' = [op |-> "score", requests |-> <<request>>]
    /\ feature_vectors' = ScoreFeatures(request)
    /\ response' = Respond(ScoreResponse(request))
    /\ model' = IF ScoreResponse(request).status = "error" THEN NONE ELSE model
    /\ UNCHANGED <<feature_names, feature_importance, model_metadata,
                   started, files>>

score_return_request(request) ==
    /\ started
    /\ call' = [op |-> "score", requests |-> <<request>>]
    /\ feature_vectors' = ScoreFeatures(request)
    /\ response' = Respond(ScoreResponse(request))
    /\ UNCHANGED <<globals, started, files>>

get_model_metrics ==
    /\ started
    /\ call' = [op |-> "metrics", requests |-> <<>>]
    /\ feature_vectors' = <<>>
    /\ response' = Respond(MetricsResponse)
    /\ UNCHANGED <<globals, started, files>>

batch_score_return_requests(requests) ==
    /\ started
    /\ call' = [op |-> "batch_score", requests |-> requests]
    /\ feature_vectors' = BatchFeatures(requests)
    /\ response' = Respond(BatchResponse(requests))
    /\ UNCHANGED <<globals, started, files>>

get_feature_importance ==
    /\ started
    /\ call' = [op |-> "feature_importance", requests |-> <<>>]
    /\ feature_vectors' = <<>>
    /\ response' = Respond(FeatureImportanceResponse)
    /\ UNCHANGED <<globals, started, files>>

Serve(request_lists) ==
    \/ health_check
    \/ \E request \in ReturnRequest : score_return_request(request)
    \/ get_model_metrics
    \/ \E requests \in request_lists : batch_score_return_requests(requests)
    \/ get_feature_importance

-----------------------------------------------------------------------------
(* Specifications *)

\* Spec: every scorer, batches of up to MaxBatch requests, and a few
\* metadata documents.
SpecNameLists == {Prefix(2), Reverse(Prefix(MaxFeatures))}

SpecDocs ==
    {NoDoc}
        \cup {MetadataDoc(Some(names), NONE, Some("2024-01-15")) :
                 names \in SpecNameLists}
        \cup {MetadataDoc(Some(names),
                          Some([i \in 1..Len(names) |-> i % (MaxImportance + 1)]),
                          Some("2024-01-15")) :
                 names \in SpecNameLists}

Startup ==
    \E model_file \in ModelFiles(Scorers),
       metadata_file \in MetadataFiles(SpecDocs) :
        lifespan(model_file, metadata_file)

Next == Startup \/ Serve(RequestLists(MaxBatch))

Spec == Init /\ [][Next]_vars

\* ExplainSpec: two scorers, batches of one request, and every metadata
\* document: each name list with each importance pattern of a length one
\* short of, equal to and one beyond the number of names, or without the
\* feature_importance key, or without both keys.
ExplainScorers ==
    {[d \in 0..(DigestMod - 1) |-> One - 1],
     [d \in 0..(DigestMod - 1) |-> IF d = 0 THEN 1 ELSE RAISES]}

ExplainDocs ==
    {MetadataDoc(NONE, NONE, Some("2024-01-15")),
     MetadataDoc(NONE, Some(<<1>>), Some("2024-01-15"))}
        \cup {MetadataDoc(Some(names), NONE, Some("2024-01-15")) :
                 names \in FeatureNameLists}
        \cup UNION {{MetadataDoc(Some(names), Some(imp), Some("2024-01-15")) :
                        imp \in UNION {ImportanceLists(m) :
                                          m \in ImportanceLengths(Len(names))}} :
                    names \in FeatureNameLists}

ExplainStartup ==
    \E model_file \in ModelFiles(ExplainScorers),
       metadata_file \in MetadataFiles(ExplainDocs) :
        lifespan(model_file, metadata_file)

ExplainNext == ExplainStartup \/ Serve(RequestLists(1))

ExplainSpec == Init /\ [][ExplainNext]_vars

-----------------------------------------------------------------------------
(* Claims *)

\* The last call was /score and it succeeded.
ScoreOk == call.op = "score" /\ response.status = "ok"

\* The last call was /batch_score and it succeeded.
BatchOk == call.op = "batch_score" /\ response.status = "ok"

\* C1: in every successful /score response and every item of a successful
\* /batch_score response, is_flagged is true exactly when risk_score is
\* strictly above 0.5 (twice the score exceeds 1.0); a score of exactly 0.5
\* is not flagged.
C1_FlagIffAboveThreshold ==
    /\ ScoreOk => (response.is_flagged <=> 2 * response.risk_score > One)
    /\ BatchOk =>
          \A i \in 1..Len(response.results) :
              response.results[i].is_flagged
                  <=> 2 * response.results[i].risk_score > One

\* C1 witness: a /score response whose score is exactly 0.5 and which is not
\* flagged.
C1_Witness ==
    /\ ScoreOk
    /\ 2 * response.risk_score = One
    /\ ~response.is_flagged

\* C2: in every successful /score response confidence is
\* min(1.0, |risk_score - 0.5| * 2): 0.0 at a score of 0.5, 1.0 at a score of
\* 0 or 1, and within [0, 1] throughout.
C2_Confidence ==
    ScoreOk =>
        LET s == response.risk_score
            d == IF 2 * s >= One THEN 2 * s - One ELSE One - 2 * s
        IN  /\ response.confidence = (IF d > One THEN One ELSE d)
            /\ 2 * s = One => response.confidence = 0
            /\ s \in {0, One} => response.confidence = One
            /\ response.confidence >= 0
            /\ response.confidence <= One

\* C2 witness: a /score response with score 0.25, whose confidence is 0.5.
C2_Witness ==
    /\ ScoreOk
    /\ 4 * response.risk_score = One
    /\ 2 * response.confidence = One

\* C3: every risk_score returned by a successful /score or /batch_score lies
\* in [0, 1].
C3_RiskScoreInUnitInterval ==
    /\ ScoreOk => response.risk_score >= 0 /\ response.risk_score <= One
    /\ BatchOk =>
          \A i \in 1..Len(response.results) :
              /\ response.results[i].risk_score >= 0
              /\ response.results[i].risk_score <= One

\* C3 witness: a batch of two results, one with score 0.0 and one with 1.0.
C3_Witness ==
    /\ BatchOk
    /\ Len(response.results) = 2
    /\ response.results[1].risk_score = 0
    /\ response.results[2].risk_score = One

\* C4: with feature_names loaded, validate_features never raises: /score and
\* /batch_score (with a model) fail only in the scorer, and each vector they
\* computed has one entry per feature name, in feature_names order: the
\* request's value where the name is a request field and 0.0 elsewhere.
C4_VectorizerTotal ==
    (/\ model # NONE
     /\ feature_names # NONE
     /\ call.op \in {"score", "batch_score"}) =>
        LET names == feature_names.val
            reqs  == call.requests
        IN  /\ response.status = "error" => response.cause = "predict"
            /\ call.op = "score" => Len(feature_vectors) = 1
            /\ response.status = "ok" => Len(feature_vectors) = Len(reqs)
            /\ Len(feature_vectors) <= Len(reqs)
            /\ \A k \in 1..Len(feature_vectors) :
                  /\ Len(feature_vectors[k]) = Len(names)
                  /\ \A i \in 1..Len(names) :
                        feature_vectors[k][i] =
                            IF names[i] \in DOMAIN reqs[k]
                            THEN reqs[k][names[i]] ELSE 0

\* C4 witness: /score of the test request succeeded under feature names whose
\* second name is not a request field; the vector has 0.0 there.
C4_Witness ==
    /\ ScoreOk
    /\ feature_names = Some(<<"order_value", "legacy_feature", "user_age_days">>)
    /\ call.requests = <<test_request>>
    /\ feature_vectors = <<(<<150, 0, 30>>)>>

\* C5 as stated: every successful /score response has exactly
\* min(5, len(feature_names)) entries in top_risk_factors.
C5_Original ==
    ScoreOk =>
        Len(response.top_risk_factors) = Min(5, Len(feature_names.val))

\* C5 as amended: top_risk_factors of a successful /score response is empty
\* when feature_importance is not loaded, and otherwise has exactly
\* min(5, len(feature_names), len(feature_importance)) entries.
C5_TopFactorsLength ==
    ScoreOk =>
        Len(response.top_risk_factors) =
            IF feature_importance = NONE THEN 0
            ELSE Min(5, Min(Len(feature_names.val), Len(feature_importance.val)))

\* C5 witness: six feature names with six importances, five entries returned.
C5_Witness ==
    /\ ScoreOk
    /\ feature_importance # NONE
    /\ Len(feature_names.val) = 6
    /\ Len(feature_importance.val) = 6
    /\ Len(response.top_risk_factors) = 5

\* The position of a feature name in feature_names (the names are distinct).
PositionOf(name) ==
    CHOOSE i \in 1..Len(feature_names.val) : feature_names.val[i] = name

\* C6: the entries of top_risk_factors are distinct features that have an
\* importance, each with its own importance; they are listed by descending
\* importance, equal importances in feature_names order; and every feature
\* left out has a smaller importance than each entry, or an equal one and a
\* later position.
C6_TopFactorsOrder ==
    (ScoreOk /\ feature_importance # NONE) =>
        LET names == feature_names.val
            imp   == feature_importance.val
            n     == Min(Len(names), Len(imp))
            top   == response.top_risk_factors
            Pos(j) == PositionOf(top[j].feature)
            selected == {Pos(j) : j \in 1..Len(top)}
        IN  /\ \A j \in 1..Len(top) :
                  /\ \E i \in 1..n : names[i] = top[j].feature
                  /\ top[j].importance = imp[Pos(j)]
            /\ Cardinality(selected) = Len(top)
            /\ \A j, k \in 1..Len(top) :
                  j < k =>
                      \/ top[j].importance > top[k].importance
                      \/ /\ top[j].importance = top[k].importance
                         /\ Pos(j) < Pos(k)
            /\ \A i \in (1..n) \ selected : \A j \in 1..Len(top) :
                  \/ imp[i] < top[j].importance
                  \/ imp[i] = top[j].importance /\ i > Pos(j)

\* C6 witness: six features; the first two entries tie, and a feature left out
\* ties with the last entry.
C6_Witness ==
    /\ ScoreOk
    /\ feature_importance # NONE
    /\ Len(feature_names.val) = 6
    /\ Len(response.top_risk_factors) = 5
    /\ response.top_risk_factors[1].importance
           = response.top_risk_factors[2].importance
    /\ response.top_risk_factors[4].importance
           > response.top_risk_factors[5].importance
    /\ \E i \in 1..6 :
          /\ \A j \in 1..5 :
                response.top_risk_factors[j].feature # feature_names.val[i]
          /\ Len(feature_importance.val) >= i
          /\ feature_importance.val[i]
                 = response.top_risk_factors[5].importance

\* The k-th smallest entry of a vector (k from 1), without sorting it.
OrderStatistic(a, k) ==
    CHOOSE v \in {a[i] : i \in 1..Len(a)} :
        /\ Cardinality({i \in 1..Len(a) : a[i] < v}) < k
        /\ k <= Cardinality({i \in 1..Len(a) : a[i] <= v})

\* Four times the 75th percentile of a vector, from its order statistics.
Percentile75Times4(a) ==
    LET pos == 3 * (Len(a) - 1)
        lo  == OrderStatistic(a, (pos \div 4) + 1)
    IN  IF pos % 4 = 0 THEN 4 * lo
        ELSE 4 * lo + (pos % 4) * (OrderStatistic(a, (pos \div 4) + 2) - lo)

\* C7: every entry of top_risk_factors has risk_level "high" or "medium", and
\* "high" exactly when its importance is strictly above the 75th percentile
\* of the whole feature_importance vector.
C7_RiskLevel ==
    ScoreOk =>
        \A j \in 1..Len(response.top_risk_factors) :
            LET entry == response.top_risk_factors[j]
            IN  /\ entry.risk_level \in {"high", "medium"}
                /\ entry.risk_level = "high" <=>
                       4 * entry.importance
                           > Percentile75Times4(feature_importance.val)

\* C7 witness: a response with a "high" entry and a "medium" entry whose
\* importance is exactly the percentile, under more than five importances.
C7_Witness ==
    /\ ScoreOk
    /\ feature_importance # NONE
    /\ Len(feature_importance.val) > 5
    /\ \E j, k \in 1..Len(response.top_risk_factors) :
          /\ response.top_risk_factors[j].risk_level = "high"
          /\ response.top_risk_factors[k].risk_level = "medium"
          /\ 4 * response.top_risk_factors[k].importance
                 = Percentile75Times4(feature_importance.val)

\* C8: every successful /batch_score response, the one for the empty list
\* included, has total_processed = len(results) and flagged_count = the
\* number of results whose is_flagged is true.
C8_BatchCounters ==
    BatchOk =>
        /\ response.total_processed = Len(response.results)
        /\ response.flagged_count =
               Cardinality({i \in DOMAIN response.results :
                               response.results[i].is_flagged})
        /\ call.requests = <<>> =>
               response.total_processed = 0 /\ response.flagged_count = 0

\* C8 witness: a batch of the same request twice, both results flagged.
C8_Witness ==
    /\ BatchOk
    /\ Len(call.requests) = 2
    /\ call.requests[1] = call.requests[2]
    /\ response.results[1].is_flagged
    /\ response.flagged_count = 2
    /\ response.total_processed = 2

\* C9: a successful /batch_score response has one result per request, in the
\* order of the requests: results[i] carries the i-th request's user_id and
\* order_id.
C9_BatchOrder ==
    BatchOk =>
        /\ Len(response.results) = Len(call.requests)
        /\ \A i \in 1..Len(call.requests) :
              /\ response.results[i].user_id = call.requests[i].user_id
              /\ response.results[i].order_id = call.requests[i].order_id

\* C9 witness: a successful batch of two requests with different identifiers.
C9_Witness ==
    /\ BatchOk
    /\ Len(response.results) = 2
    /\ call.requests[1].user_id # call.requests[2].user_id
    /\ call.requests[1].order_id # call.requests[2].order_id

\* C10: under the loaded model and metadata, /score succeeds for the request
\* of each item of a successful /batch_score response and returns the item's
\* risk_score and is_flagged, whatever the item's position and neighbours.
C10_BatchMatchesSingle ==
    BatchOk =>
        \A i \in 1..Len(call.requests) :
            LET single == ScoreResponse(call.requests[i])
            IN  /\ single.status = "ok"
                /\ single.risk_score = response.results[i].risk_score
                /\ single.is_flagged = response.results[i].is_flagged

\* C10 witness: a successful batch of two requests whose results differ: the
\* first is scored on the threshold and not flagged, the second is flagged.
C10_Witness ==
    /\ BatchOk
    /\ Len(response.results) = 2
    /\ response.results[1].risk_score = threshold
    /\ ~response.results[1].is_flagged
    /\ response.results[2].is_flagged

\* The scorer, or the vectorizer before it, fails on this request.
ItemFails(request) ==
    \/ feature_names = NONE
    \/ predict(model.val, validate_features(request).val).raised

\* C11: when vectorization or scoring fails for any item of a batch, the
\* /batch_score call ends in one "Batch scoring error" that carries no
\* results and no counters, whatever was scored before the failing item.
C11_BatchFailsWhole ==
    (/\ call.op = "batch_score"
     /\ model # NONE
     /\ \E i \in 1..Len(call.requests) : ItemFails(call.requests[i])) =>
        /\ response.status = "error"
        /\ response.status_code = 500
        /\ response.error = "Batch scoring error"
        /\ DOMAIN response
               \cap {"results", "total_processed", "flagged_count"} = {}

\* C11 witness: a batch of two whose first item was scored and whose second
\* item the scorer failed on; the call ended in the error.
C11_Witness ==
    /\ call.op = "batch_score"
    /\ model # NONE
    /\ Len(call.requests) = 2
    /\ ~ItemFails(call.requests[1])
    /\ ItemFails(call.requests[2])
    /\ Len(feature_vectors) = 2
    /\ response.status = "error"

\* C12: with no model loaded, /score, /batch_score (for every list, the empty
\* one included), /metrics and /feature_importance end in a 500 error that
\* says the model is not loaded, never in a success, nothing is vectorized,
\* and the process goes on serving.
C12_NoModelNoService ==
    /\ (/\ model = NONE
        /\ call.op \in {"score", "batch_score", "metrics", "feature_importance"})
           => /\ response.status = "error"
              /\ response.status_code = 500
              /\ response.error =
                     IF call.op = "feature_importance"
                     THEN "Model or feature data not loaded"
                     ELSE "Model not loaded"
              /\ feature_vectors = <<>>
    /\ (started /\ model = NONE) =>
           /\ ENABLED health_check
           /\ ENABLED get_model_metrics
           /\ ENABLED get_feature_importance
           /\ \A request \in ReturnRequest :
                 ENABLED score_return_request(request)
           /\ ENABLED batch_score_return_requests(<<>>)

\* C12 witness: /metrics on a process whose model file was absent.
C12_Witness ==
    /\ files.model = "absent"
    /\ model = NONE
    /\ call.op = "metrics"
    /\ response.status = "error"

\* C13: /health always answers 200, with status "healthy" exactly when a
\* model is loaded and model_loaded equal to that; so unhealthy after a model
\* file that was absent or did not load, and healthy whatever the metadata.
C13_Health ==
    /\ started => ENABLED health_check
    /\ call.op = "health" =>
          /\ response.status_code = 200
          /\ response.status \in {"healthy", "unhealthy"}
          /\ response.status = "healthy" <=> model # NONE
          /\ response.model_loaded <=> model # NONE
          /\ files.model \in {"absent", "corrupt"} =>
                 response.status = "unhealthy" /\ ~response.model_loaded
          /\ files.model = "ok" =>
                 response.status = "healthy" /\ response.model_loaded

\* C13 witness: /health on a process with a model and no metadata file.
C13_Witness ==
    /\ call.op = "health"
    /\ files = [model |-> "ok", metadata |-> "absent"]
    /\ model_metadata = NONE
    /\ response.status = "healthy"
    /\ response.model_loaded

\* The fields of a scoring result.
ResultFields ==
    {"risk_score", "is_flagged", "confidence", "top_risk_factors", "results",
     "total_processed", "flagged_count"}

\* C14: with a model loaded and feature_names unavailable, as after a
\* metadata file that is absent or unreadable, every /score call and every
\* /batch_score call with at least one request ends in an error raised by
\* validate_features; nothing is vectorized and no result is returned.
C14_NoFeatureNamesNoScoring ==
    /\ (started /\ files.model = "ok"
            /\ files.metadata \in {"absent", "corrupt"}) =>
           model # NONE /\ feature_names = NONE
    /\ (/\ model # NONE
        /\ feature_names = NONE
        /\ \/ call.op = "score"
           \/ call.op = "batch_score" /\ call.requests # <<>>) =>
           /\ response.status = "error"
           /\ response.status_code = 500
           /\ response.error \in {"Scoring error", "Batch scoring error"}
           /\ response.cause = "Model not loaded"
           /\ feature_vectors = <<>>
           /\ DOMAIN response \cap ResultFields = {}

\* C14 witness: a batch of one request on a process whose metadata file was
\* unreadable.
C14_Witness ==
    /\ files = [model |-> "ok", metadata |-> "corrupt"]
    /\ call.op = "batch_score"
    /\ Len(call.requests) = 1
    /\ response.status = "error"
    /\ response.cause = "Model not loaded"

\* C15: with a model loaded and feature_importance unavailable, /metrics
\* succeeds with an empty feature_importance list, and feature_count 0 when
\* feature_names is unavailable too; /score under loaded feature_names fails
\* only where the scorer fails, and otherwise succeeds with
\* top_risk_factors = [].
C15_DegradedExplanation ==
    (model # NONE /\ feature_importance = NONE) =>
        /\ call.op = "metrics" =>
              /\ response.status = "ok"
              /\ response.feature_importance = <<>>
              /\ feature_names = NONE =>
                     response.model_info.feature_count = 0
        /\ (call.op = "score" /\ feature_names # NONE) =>
              IF ItemFails(call.requests[1])
              THEN response.status = "error" /\ response.cause = "predict"
              ELSE response.status = "ok" /\ response.top_risk_factors = <<>>

\* C15 witness: /score succeeded with no factors under feature names without
\* importances.
C15_Witness ==
    /\ ScoreOk
    /\ feature_names # NONE
    /\ feature_names.val # <<>>
    /\ feature_importance = NONE
    /\ response.top_risk_factors = <<>>

\* The last call was a /score on which the scorer raised.
ScorerRaised ==
    /\ call.op = "score"
    /\ model # NONE
    /\ feature_names # NONE
    /\ predict(model.val, validate_features(call.requests[1]).val).raised

\* C16: a /score call on which the scorer raises ends in a 500 "Scoring
\* error" with none of the result fields, and leaves the process serving and
\* the model, feature names, importances and metadata as they were; and the
\* response of every /score call is the one its request gets from them, so a
\* later request is scored as if the failure had not happened.
C16_ScorerFailure ==
    [][/\ (/\ started
           /\ call'.op = "score"
           /\ model # NONE
           /\ feature_names # NONE
           /\ predict(model.val,
                      validate_features(call'.requests[1]).val).raised) =>
              /\ response'.status = "error"
              /\ response'.status_code = 500
              /\ response'.error = "Scoring error"
              /\ response'.cause = "predict"
              /\ DOMAIN response' \cap ResultFields = {}
              /\ started'
              /\ globals' = globals
       /\ (started /\ call'.op = "score") =>
              LET outcome == ScoreResponse(call'.requests[1])
              IN  IF outcome.status = "ok" THEN response' = outcome
                  ELSE /\ response'.status = "error"
                       /\ response'.cause = outcome.cause]_vars

\* C16 witness: the scorer raised on the last /score, under a model that
\* scores another request.
C16_Witness ==
    /\ ScorerRaised
    /\ response.status = "error"
    /\ Len(feature_vectors) = 1
    /\ \E request \in ReturnRequest : ScoreResponse(request).status = "ok"

\* C17: once startup has finished no step changes model, feature_names,
\* feature_importance or model_metadata, whatever the operation and whether
\* it succeeds or fails.
C17_GlobalsReadOnly ==
    [][started =>
          /\ model' = model
          /\ feature_names' = feature_names
          /\ feature_importance' = feature_importance
          /\ model_metadata' = model_metadata
          /\ started']_vars

\* C17 witness: a failed /batch_score on a process with all four loaded.
C17_Witness ==
    /\ started
    /\ call.op = "batch_score"
    /\ response.status = "error"
    /\ model # NONE
    /\ feature_names # NONE
    /\ feature_importance # NONE
    /\ model_metadata # NONE

\* C18 as stated: with model, feature_names and feature_importance loaded,
\* /metrics and /feature_importance succeed with one entry per feature of
\* feature_names, by descending importance and equal importances in
\* feature_names order, and top_risk_factors of a successful /score names
\* the first min(5, n) features of that ranking.
C18_FullRanking ==
    (model # NONE /\ feature_names # NONE /\ feature_importance # NONE) =>
        LET names   == feature_names.val
            ranking == importance_data(names, feature_importance.val)
        IN  /\ call.op \in {"metrics", "feature_importance"} =>
                  /\ response.status = "ok"
                  /\ Len(response.feature_importance) = Len(names)
                  /\ \A i \in 1..Len(names) :
                        \E j \in 1..Len(response.feature_importance) :
                            response.feature_importance[j].feature = names[i]
                  /\ \A j, k \in 1..Len(response.feature_importance) :
                        j < k =>
                            LET a == response.feature_importance[j]
                                b == response.feature_importance[k]
                            IN  \/ a.importance > b.importance
                                \/ /\ a.importance = b.importance
                                   /\ PositionOf(a.feature) < PositionOf(b.feature)
            /\ ScoreOk =>
                  /\ Len(response.top_risk_factors) = Min(5, Len(names))
                  /\ \A j \in 1..Len(response.top_risk_factors) :
                        /\ j <= Len(ranking)
                        /\ response.top_risk_factors[j].feature
                               = ranking[j].feature
                        /\ response.top_risk_factors[j].importance
                               = ranking[j].importance

\* C19 as stated: a length mismatch between feature_names and
\* feature_importance is caught when the artifact is loaded: no serving
\* process has both loaded with different lengths, so no /score answers from
\* mismatched metadata.
C19_MismatchCaughtAtStartup ==
    (started /\ feature_names # NONE /\ feature_importance # NONE) =>
        Len(feature_names.val) = Len(feature_importance.val)

\* C20: every entry of top_risk_factors of a successful /score is paired by
\* position: for some i it names feature_names[i], its value is the i-th
\* entry of the scored vector, which is the request's value for that name or
\* 0.0 when the request has no such field, and its importance is
\* feature_importance[i]; and no name appears in two entries.
C20_PositionalPairing ==
    ScoreOk =>
        LET top     == response.top_risk_factors
            request == call.requests[1]
        IN  /\ \A j \in 1..Len(top) :
                  \E i \in 1..Len(feature_names.val) :
                      /\ i <= Len(feature_importance.val)
                      /\ top[j].feature = feature_names.val[i]
                      /\ top[j].value = feature_vectors[1][i]
                      /\ top[j].value =
                             IF top[j].feature \in DOMAIN request
                             THEN request[top[j].feature] ELSE 0
                      /\ top[j].importance = feature_importance.val[i]
            /\ \A j, k \in 1..Len(top) :
                  j # k => top[j].feature # top[k].feature

\* C20 witness: the sort moved the features: the first entry is not the
\* first feature name, one entry carries the request's order_value and one
\* names a feature the request lacks, with value 0.0.
C20_Witness ==
    /\ ScoreOk
    /\ call.requests = <<test_request>>
    /\ Len(response.top_risk_factors) >= 3
    /\ response.top_risk_factors[1].feature # feature_names.val[1]
    /\ \E j, k \in 1..Len(response.top_risk_factors) :
          /\ response.top_risk_factors[j].feature = "order_value"
          /\ response.top_risk_factors[j].value = 150
          /\ response.top_risk_factors[k].feature = "legacy_feature"
          /\ response.top_risk_factors[k].value = 0

====
